---- MODULE Spec2Model ----
(***************************************************************************)
(* Model of the uploadAsset HTTP function (src/functions/uploadAsset.js)    *)
(* and of the response helpers of src/shared/utils.js.                      *)
(*                                                                          *)
(* Strings the handler inspects character by character (path segments,      *)
(* base64 text, storage keys) are sequences of one-character strings;       *)
(* bytes are integers 0..255.  JSON values are tagged records [t, v].       *)
(***************************************************************************)
EXTENDS Integers, Sequences, FiniteSets, TLC

(***************************************************************************)
(* Bounds of the model.                                                     *)
(***************************************************************************)
\* number of concurrent upload requests
NumReq == 2

Req == 1..NumReq

(***************************************************************************)
(* JSON / JavaScript values.                                                *)
(***************************************************************************)
Undefined == [t |-> "undefined", v |-> <<>>]
Null == [t |-> "null", v |-> <<>>]
Str(s) == [t |-> "string", v |-> s]
Num(digits) == [t |-> "number", v |-> digits]
Arr(a) == [t |-> "array", v |-> a]

\* JavaScript truthiness, as used by `!x` and `x || d`
Truthy(x) ==
  CASE x.t = "undefined" -> FALSE
    [] x.t = "null" -> FALSE
    [] x.t = "string" -> x.v # <<>>
    [] x.t = "number" -> x.v # <<"0">>
    [] OTHER -> TRUE

\* Array.isArray
IsArray(x) == x.t = "array"

\* variant: x ?? d, the default for undefined and null only
OrDefaultNullish(x, d) == IF x.t \in {"undefined", "null"} THEN d ELSE x

\* x || d
OrDefault(x, d) == IF Truthy(x) THEN x ELSE d

(***************************************************************************)
(* String.prototype.trim and Array.prototype.join                           *)
(***************************************************************************)
WhiteSpace == {" ", "\t", "\n"}

RECURSIVE TrimStart(_)
TrimStart(s) ==
  IF s # <<>> /\ Head(s) \in WhiteSpace THEN TrimStart(Tail(s)) ELSE s

RECURSIVE TrimEnd(_)
TrimEnd(s) ==
  IF s # <<>> /\ s[Len(s)] \in WhiteSpace
    THEN TrimEnd(SubSeq(s, 1, Len(s) - 1))
    ELSE s

Trim(s) == TrimEnd(TrimStart(s))

RECURSIVE Join(_, _)
Join(segs, sep) ==
  IF segs = <<>> THEN <<>>
  ELSE IF Len(segs) = 1 THEN Head(segs).v
  ELSE Head(segs).v \o sep \o Join(Tail(segs), sep)

(***************************************************************************)
(* Base64.  Base64Encode is what the clients of the documentation do;       *)
(* Base64Decode is Buffer.from(text, 'base64'): characters outside the      *)
(* alphabet are skipped, decoding stops at the first '=', and a trailing     *)
(* group of 2 or 3 sextets yields 1 or 2 bytes.  It never throws on a       *)
(* string.                                                                  *)
(***************************************************************************)
B64Alphabet ==
  << "A","B","C","D","E","F","G","H","I","J","K","L","M","N","O","P",
     "Q","R","S","T","U","V","W","X","Y","Z","a","b","c","d","e","f",
     "g","h","i","j","k","l","m","n","o","p","q","r","s","t","u","v",
     "w","x","y","z","0","1","2","3","4","5","6","7","8","9","+","/" >>

B64Pad == "="

\* value of a base64 character, or 64 when the character is not legal
Unbase64(c) ==
  IF \E i \in 1..Len(B64Alphabet) : B64Alphabet[i] = c
    THEN (CHOOSE i \in 1..Len(B64Alphabet) : B64Alphabet[i] = c) - 1
    ELSE IF c = "-" THEN 62
    ELSE IF c = "_" THEN 63
    ELSE 64

RECURSIVE Sextets(_)
Sextets(s) ==
  IF s = <<>> \/ Head(s) = B64Pad THEN <<>>
  ELSE IF Unbase64(Head(s)) < 64
    THEN <<Unbase64(Head(s))>> \o Sextets(Tail(s))
    ELSE Sextets(Tail(s))

\* variant: a decoder that drops a trailing group of fewer than 4 sextets
RECURSIVE DecodeGroupsWholeOnly(_)
DecodeGroupsWholeOnly(x) ==
  IF Len(x) < 4 THEN <<>>
  ELSE << x[1] * 4 + x[2] \div 16,
          (x[2] % 16) * 16 + x[3] \div 4,
          (x[3] % 4) * 64 + x[4] >> \o DecodeGroupsWholeOnly(SubSeq(x, 5, Len(x)))

RECURSIVE DecodeGroups(_)
DecodeGroups(x) ==
  IF Len(x) < 2 THEN <<>>
  ELSE IF Len(x) = 2 THEN << x[1] * 4 + x[2] \div 16 >>
  ELSE IF Len(x) = 3
    THEN << x[1] * 4 + x[2] \div 16, (x[2] % 16) * 16 + x[3] \div 4 >>
  ELSE << x[1] * 4 + x[2] \div 16,
          (x[2] % 16) * 16 + x[3] \div 4,
          (x[3] % 4) * 64 + x[4] >> \o DecodeGroups(SubSeq(x, 5, Len(x)))

Base64Decode(s) == DecodeGroups(Sextets(s))

RECURSIVE Base64Encode(_)
Base64Encode(b) ==
  IF b = <<>> THEN <<>>
  ELSE IF Len(b) = 1
    THEN << B64Alphabet[b[1] \div 4 + 1],
            B64Alphabet[(b[1] % 4) * 16 + 1], B64Pad, B64Pad >>
  ELSE IF Len(b) = 2
    THEN << B64Alphabet[b[1] \div 4 + 1],
            B64Alphabet[(b[1] % 4) * 16 + b[2] \div 16 + 1],
            B64Alphabet[(b[2] % 16) * 4 + 1], B64Pad >>
  ELSE << B64Alphabet[b[1] \div 4 + 1],
          B64Alphabet[(b[1] % 4) * 16 + b[2] \div 16 + 1],
          B64Alphabet[(b[2] % 16) * 4 + b[3] \div 64 + 1],
          B64Alphabet[(b[3] % 64) + 1] >> \o Base64Encode(SubSeq(b, 4, Len(b)))

(***************************************************************************)
(* Buffers.  A buffer is its leading bytes followed by `pad` zero bytes, so *)
(* that a file part at the size limit can be written down.                  *)
(***************************************************************************)
Buf(bytes) == [data |-> bytes, pad |-> 0]

BufLen(b) == Len(b.data) + b.pad

\* Buffer.from(x, 'base64'): decodes a string leniently, throws a TypeError
\* on a number (the payloads of this model are strings, numbers or absent)
BufferFrom(x) ==
  IF x.t = "string"
    THEN [threw |-> FALSE, buffer |-> Buf(Base64Decode(x.v))]
    ELSE [threw |-> TRUE, buffer |-> Buf(<<>>)]

(***************************************************************************)
(* src/shared/utils.js: responses.  `details` is <<>> for null and <<m>>    *)
(* for the message m.                                                       *)
(***************************************************************************)
NoDetails == <<>>

\* variant: a body that always has a details field
errorResponseAlwaysDetails(statusCode, message, details) ==
  [ status |-> statusCode,
    body |-> [success |-> FALSE, error |-> message,
              details |-> IF details # <<>> THEN details[1] ELSE ""] ]

errorResponse(statusCode, message, details) ==
  [ status |-> statusCode,
    body |-> IF details # <<>> /\ details[1] # ""
               THEN [success |-> FALSE, error |-> message, details |-> details[1]]
               ELSE [success |-> FALSE, error |-> message] ]

successResponse(data, message) ==
  [ status |-> 200,
    body |-> [success |-> TRUE, message |-> message, data |-> data] ]

(***************************************************************************)
(* src/functions/uploadAsset.js: constants                                  *)
(***************************************************************************)
BUCKET_NAME == "espaze-seller-product-assets"

\* multer limits.fileSize: 100 * 1024 * 1024
FileSizeLimit == 100 * 1024 * 1024

MsgMethod == "Method not allowed. Use POST."
MsgContentType == "Content-Type must be multipart/form-data or application/json"
MsgMissingJson == "Missing required fields: path and file"
MsgMissingPath == "Missing required field: path"
MsgMissingFile == "Missing required field: file"
MsgPathFormat == "Invalid path format. Must be a JSON array like [\"folder\", \"file.png\"]"
MsgBase64 == "Invalid base64 file data"
MsgPathArray == "path must be a non-empty array"
MsgSegments == "All path segments must be non-empty strings"
MsgEmptyFile == "File is empty or invalid"
MsgMulter == "File upload error"
MsgBucket == "Bucket '" \o BUCKET_NAME \o "' not found. Please create it first."
MsgPermission == "Permission denied. Check service account permissions."
MsgFailed == "Failed to upload file"
MsgUploaded == "File uploaded successfully"

\* variant: the check without the length test
BadPathArrayNoLength(path) == ~IsArray(path)

\* !Array.isArray(path) || path.length === 0
BadPathArray(path) == ~IsArray(path) \/ Len(path.v) = 0

\* variant: the loop without trim()
BadSegmentNoTrim(path) ==
  \E i \in 1..Len(path.v) : path.v[i].t # "string" \/ path.v[i].v = <<>>

\* the for-loop over the segments: TRUE when some segment is rejected
BadSegment(path) ==
  \E i \in 1..Len(path.v) :
    path.v[i].t # "string" \/ Trim(path.v[i].v) = <<>>

\* variant: a key built from the trimmed segments
FullPathTrimmed(path) ==
  Join([i \in 1..Len(path.v) |-> [path.v[i] EXCEPT !.v = Trim(@)]], <<"/">>)

\* path.join('/')
FullPath(path) == Join(path.v, <<"/">>)

\* variant: a URL without the bucket
PublicUrlNoBucket(fullPath) == <<"https://storage.googleapis.com/">> \o fullPath

\* `https://storage.googleapis.com/${BUCKET_NAME}/${fullPath}`
PublicUrl(fullPath) ==
  <<"https://storage.googleapis.com/", BUCKET_NAME, "/">> \o fullPath

\* variant: an object addressed by the path and the declared file name
SaveCallKeyedByName(fullPath, fileBuffer, mimeType, fileName, now) ==
  [ key |-> fullPath \o <<"/">> \o fileName.v,
    bytes |-> fileBuffer,
    contentType |-> mimeType,
    metadata |-> [ originalFileName |-> fileName,
                   uploadedAt |-> now,
                   uploadedBy |-> "uploadAsset-function" ] ]

\* the file.save call: the object written and the key it is written to
SaveCall(fullPath, fileBuffer, mimeType, fileName, now) ==
  [ key |-> fullPath,
    bytes |-> fileBuffer,
    contentType |-> mimeType,
    metadata |-> [ originalFileName |-> fileName,
                   uploadedAt |-> now,
                   uploadedBy |-> "uploadAsset-function" ] ]

Respond(r) == [kind |-> "respond", resp |-> r]
Save(c) == [kind |-> "save", call |-> c]

\* the catch block of the JSON branch
JsonCatch(error) ==
  IF error.code = <<404>> THEN errorResponse(404, MsgBucket, NoDetails)
  ELSE IF error.code = <<403>> THEN errorResponse(403, MsgPermission, NoDetails)
  ELSE errorResponse(500, MsgFailed, <<error.message>>)

\* variant: a catch block without the 403 case
MultipartCatchNo403(error) ==
  IF error.code = <<404>> THEN errorResponse(404, MsgBucket, NoDetails)
  ELSE errorResponse(500, MsgFailed, <<error.message>>)

\* the catch block of the multipart branch
MultipartCatch(error) ==
  IF error.code = <<404>> THEN errorResponse(404, MsgBucket, NoDetails)
  ELSE IF error.code = <<403>> THEN errorResponse(403, MsgPermission, NoDetails)
  ELSE errorResponse(500, MsgFailed, <<error.message>>)

\* the JSON branch up to the call of file.save; req.body is the parsed JSON
\* object, a field the request does not carry being undefined
JsonBranch(body, now) ==
    LET pathArray == body.path
        base64File == body.file
        decoded == BufferFrom(base64File)
        fileBuffer == decoded.buffer
        fileName == OrDefault(body.fileName, Str(<<"file">>))
        mimeType == OrDefault(body.mimeType, Str(<<"application/octet-stream">>))
    IN  IF ~Truthy(pathArray) \/ ~Truthy(base64File)
          THEN Respond(errorResponse(400, MsgMissingJson, NoDetails))
        ELSE IF decoded.threw
          THEN Respond(errorResponse(400, MsgBase64, NoDetails))
        ELSE IF BadPathArray(pathArray)
          THEN Respond(errorResponse(400, MsgPathArray, NoDetails))
        ELSE IF BadSegment(pathArray)
          THEN Respond(errorResponse(400, MsgSegments, NoDetails))
        ELSE IF BufLen(fileBuffer) = 0
          THEN Respond(errorResponse(400, MsgEmptyFile, NoDetails))
        ELSE Save(SaveCall(FullPath(pathArray), fileBuffer, mimeType, fileName, now))

(***************************************************************************)
(* The multipart branch.  A form is its text field `path` (undefined when   *)
(* not sent) and at most one file part.                                     *)
(***************************************************************************)
NoPart == <<>>

\* variant: upload.single('file') without limits
MulterNoLimit(form) ==
  IF form.part # NoPart /\ form.part[1].fieldname # "file"
    THEN [err |-> <<"Unexpected field">>, path |-> form.path, file |-> NoPart]
  ELSE [err |-> <<>>, path |-> form.path, file |-> form.part]

\* upload.single('file') with memory storage and limits.fileSize
Multer(form) ==
  IF form.part # NoPart /\ form.part[1].fieldname # "file"
    THEN [err |-> <<"Unexpected field">>, path |-> form.path, file |-> NoPart]
  ELSE IF form.part # NoPart /\ BufLen(form.part[1].content) > FileSizeLimit
    THEN [err |-> <<"File too large">>, path |-> form.path, file |-> NoPart]
  ELSE [err |-> <<>>, path |-> form.path, file |-> form.part]

\* JSON.parse on the texts the clients of this model send in the field `path`
JSONParse(text) ==
  CASE text = <<"[\"a\"]">> ->
         [ok |-> TRUE, value |-> Arr(<< Str(<<"a">>) >>)]
    [] text = <<"[\"a\",\"b\"]">> ->
         [ok |-> TRUE, value |-> Arr(<< Str(<<"a">>), Str(<<"b">>) >>)]
    [] text = <<"[\"a/b\"]">> ->
         [ok |-> TRUE, value |-> Arr(<< Str(<<"a", "/", "b">>) >>)]
    [] text = <<"[\"a\",\" \"]">> ->
         [ok |-> TRUE, value |-> Arr(<< Str(<<"a">>), Str(<<" ">>) >>)]
    [] text = <<"[\"\",\"b\"]">> ->
         [ok |-> TRUE, value |-> Arr(<< Str(<<>>), Str(<<"b">>) >>)]
    [] text = <<"[5]">> ->
         [ok |-> TRUE, value |-> Arr(<< Num(<<"5">>) >>)]
    [] text = <<"[]">> -> [ok |-> TRUE, value |-> Arr(<<>>)]
    [] text = <<"\"a/b\"">> -> [ok |-> TRUE, value |-> Str(<<"a", "/", "b">>)]
    [] text = <<"null">> -> [ok |-> TRUE, value |-> Null]
    [] OTHER -> [ok |-> FALSE, value |-> Undefined]

\* the callback given to multer, up to the call of file.save
MultipartBranch(form, now) ==
  LET m == Multer(form)
      parsed == JSONParse(m.path.v)
      path == parsed.value
      file == m.file[1]
  IN  IF m.err # <<>>
        THEN Respond(errorResponse(400, MsgMulter, m.err))
      ELSE IF ~Truthy(m.path)
        THEN Respond(errorResponse(400, MsgMissingPath, NoDetails))
      ELSE IF ~parsed.ok
        THEN Respond(errorResponse(400, MsgPathFormat, NoDetails))
      ELSE IF m.file = NoPart
        THEN Respond(errorResponse(400, MsgMissingFile, NoDetails))
      ELSE IF BadPathArray(path)
        THEN Respond(errorResponse(400, MsgPathArray, NoDetails))
      ELSE IF BadSegment(path)
        THEN Respond(errorResponse(400, MsgSegments, NoDetails))
      ELSE Save(SaveCall(FullPath(path), file.content,
                         Str(<<file.mimetype>>), Str(<<file.originalname>>), now))

(***************************************************************************)
(* The handler's entry: CORS headers, method gate, content-type dispatch.   *)
(***************************************************************************)
\* content-type headers of the model that contain 'multipart/form-data'
HasMultipart == {"multipart/form-data; boundary=x"}

\* content-type headers of the model that contain 'application/json'
HasJson == {"application/json", "application/json; charset=utf-8"}

\* req.get('content-type') || '' for a request without the header
NoHeader == ""

ContentTypes == HasMultipart \cup HasJson \cup {"text/xml", "APPLICATION/JSON", NoHeader}

\* setCorsHeaders(res)
setCorsHeaders ==
  [ allowOrigin |-> "*",
    allowMethods |-> "GET, POST, PUT, DELETE, OPTIONS",
    allowHeaders |-> "Content-Type, Authorization",
    maxAge |-> "3600" ]

\* variant: the handler without the method gate
uploadAssetNoGate(rq, now) ==
  IF rq.method = "OPTIONS" THEN Respond([status |-> 204, body |-> ""])
  ELSE IF rq.contentType \in HasMultipart
    THEN MultipartBranch(rq.form[1], now)
  ELSE IF rq.contentType \in HasJson THEN JsonBranch(rq.json, now)
  ELSE Respond(errorResponse(400, MsgContentType, NoDetails))

\* variant: a handler that reads req.body as JSON under any other content type
uploadAssetJsonDefault(rq, now) ==
  IF rq.method = "OPTIONS" THEN Respond([status |-> 204, body |-> ""])
  ELSE IF rq.method # "POST"
    THEN Respond(errorResponse(405, MsgMethod, NoDetails))
  ELSE IF rq.contentType \in HasMultipart
    THEN MultipartBranch(rq.form[1], now)
  ELSE JsonBranch(rq.json, now)

\* variant: a handler without the preflight branch
uploadAssetNoPreflight(rq, now) ==
  IF rq.method # "POST"
    THEN Respond(errorResponse(405, MsgMethod, NoDetails))
  ELSE IF rq.contentType \in HasMultipart
    THEN MultipartBranch(rq.form[1], now)
  ELSE IF rq.contentType \in HasJson THEN JsonBranch(rq.json, now)
  ELSE Respond(errorResponse(400, MsgContentType, NoDetails))

uploadAsset(rq, now) ==
  IF rq.method = "OPTIONS" THEN Respond([status |-> 204, body |-> ""])
  ELSE IF rq.method # "POST"
    THEN Respond(errorResponse(405, MsgMethod, NoDetails))
  ELSE IF rq.contentType \in HasMultipart
    THEN MultipartBranch(rq.form[1], now)
  ELSE IF rq.contentType \in HasJson THEN JsonBranch(rq.json, now)
  ELSE Respond(errorResponse(400, MsgContentType, NoDetails))

\* which catch block a request's store failure reaches
Catch(rq, error) ==
  IF rq.contentType \in HasMultipart THEN MultipartCatch(error) ELSE JsonCatch(error)

\* the success response after makePublic
Success(call) ==
  successResponse([ bucket |-> BUCKET_NAME,
                    filePath |-> call.key,
                    publicUrl |-> PublicUrl(call.key),
                    size |-> BufLen(call.bytes),
                    mimeType |-> call.contentType ], MsgUploaded)

(***************************************************************************)
(* The requests clients send.                                               *)
(***************************************************************************)
\* "Hi" and "Hello World"; one byte and three bytes whose base64 is "/w==" and "++++"
BytesHi == <<72, 105>>
BytesHello == <<72, 101, 108, 108, 111, 32, 87, 111, 114, 108, 100>>
BytesFF == <<255>>
BytesPlus == <<251, 239, 190>>

Payloads == {BytesHi, BytesHello, BytesFF, BytesPlus}

SegA == Str(<<"a">>)
SegB == Str(<<"b">>)
PathA == Arr(<<SegA>>)
PathAB == Arr(<<SegA, SegB>>)
PathSlash == Arr(<< Str(<<"a", "/", "b">>) >>)
PathHello ==
  Arr(<< Str(<<"t", "e", "s", "t">>),
         Str(<<"h", "e", "l", "l", "o", ".", "t", "x", "t">>) >>)
PathPadded == Arr(<< Str(<<" ", "a">>) >>)
PathBlankSeg == Arr(<< SegA, Str(<<" ">>) >>)
PathEmptySeg == Arr(<< Str(<<>>), SegB >>)
PathNumSeg == Arr(<< Num(<<"5">>) >>)
PathEmpty == Arr(<<>>)
PathString == Str(<<"a", "/", "b">>)

JsonPaths ==
  { PathA, PathAB, PathSlash, PathHello, PathPadded, PathBlankSeg, PathEmptySeg,
    PathNumSeg, PathEmpty, PathString, Null, Undefined }

\* payload field values: base64 of the payloads, text that is not
\* base64, the empty string, a number, nothing
Base64Texts ==
  { Base64Encode(b) : b \in Payloads } \cup
  { <<"S", "G", "!", "k", "=">>, <<"S", "G", "k">>, <<"S", "G", "V", "s", "b">>,
    <<"!", "!", "!", "!">>, <<"=", "S", "G", "k">> }

PayloadValues ==
  {Str(t) : t \in Base64Texts} \cup {Str(<<>>), Num(<<"5">>), Undefined}

MimeValues == {Undefined, Str(<<>>), Str(<<"text/plain">>)}
NameValues == {Undefined, Str(<<>>), Str(<<"hello.txt">>)}

\* req.body of a JSON request: the payload is sent in `file` or in `fileData`
JsonBodies ==
  { [path |-> p, file |-> f, fileData |-> Undefined, fileName |-> n, mimeType |-> m] :
      p \in JsonPaths, f \in PayloadValues, n \in NameValues, m \in MimeValues }
  \cup
  { [path |-> p, file |-> Undefined, fileData |-> f, fileName |-> n, mimeType |-> m] :
      p \in JsonPaths, f \in PayloadValues \ {Undefined}, n \in NameValues, m \in MimeValues }

NoJson ==
  [path |-> Undefined, file |-> Undefined, fileData |-> Undefined,
   fileName |-> Undefined, mimeType |-> Undefined]

PathTexts ==
  { Undefined, Str(<<>>), Str(<<"[\"a\"]">>), Str(<<"[\"a\",\"b\"]">>),
    Str(<<"[\"a/b\"]">>), Str(<<"[\"a\",\" \"]">>), Str(<<"[\"\",\"b\"]">>),
    Str(<<"[5]">>), Str(<<"[]">>), Str(<<"\"a/b\"">>), Str(<<"null">>),
    Str(<<"[\"a\"">>), Str(<<"a/b">>) }

PartContents ==
  { Buf(BytesHi), Buf(BytesHello), Buf(<<>>),
    [data |-> BytesHi, pad |-> FileSizeLimit - 3],
    [data |-> BytesHi, pad |-> FileSizeLimit - 1] }

FileParts ==
  { << [fieldname |-> f, originalname |-> "photo.png", mimetype |-> "image/png",
        content |-> c] >> : f \in {"file", "fileData"}, c \in PartContents }

Forms == { [path |-> t, part |-> q] : t \in PathTexts, q \in FileParts \cup {NoPart} }

NoForm == <<>>

Methods == {"POST", "OPTIONS", "GET", "DELETE"}

\* every request of the model: a JSON body or a form, under any method and
\* any content-type header that does not announce the other encoding
AnyRequests ==
  { [method |-> m, contentType |-> c, json |-> j, form |-> NoForm] :
      m \in Methods, c \in ContentTypes \ HasMultipart, j \in JsonBodies }
  \cup
  { [method |-> m, contentType |-> c, json |-> NoJson, form |-> <<f>>] :
      m \in Methods, c \in ContentTypes \ HasJson, f \in Forms }

\* well-formed uploads, the traffic of the concurrent scenario: JSON uploads
\* of "Hi" without and of "Hello World" with the optional fields, to two
\* paths, and a multipart upload to the first path
UploadRequests ==
  { [method |-> "POST", contentType |-> "application/json",
     json |-> [path |-> p, file |-> Str(Base64Encode(u[1])), fileData |-> Undefined,
               fileName |-> u[2], mimeType |-> u[3]],
     form |-> NoForm] :
      p \in {PathA, PathAB},
      u \in { <<BytesHi, Undefined, Undefined>>,
              <<BytesHello, Str(<<"hello.txt">>), Str(<<"text/plain">>)>> } }
  \cup
  { [method |-> "POST", contentType |-> "multipart/form-data; boundary=x", json |-> NoJson,
     form |-> << [path |-> Str(<<"[\"a\"]">>),
                  part |-> << [fieldname |-> "file", originalname |-> "photo.png",
                               mimetype |-> "image/png", content |-> Buf(BytesHello)] >>] >>] }

\* failures of the store: missing bucket, missing permission, backend faults
StoreErrors ==
  { [code |-> <<404>>, message |-> "Not Found"],
    [code |-> <<403>>, message |-> "Forbidden"],
    [code |-> <<503>>, message |-> "Service Unavailable"],
    [code |-> <<>>, message |-> "socket hang up"] }

(***************************************************************************)
(* State.                                                                   *)
(***************************************************************************)
VARIABLES
  traffic,   \* "probe": one arbitrary request; "uploads": NumReq concurrent uploads;
             \* "retry": an invocation of retryWithBackoff
  now,       \* the clock read by new Date()
  pc,        \* per request: "idle", "save", "publish", "done"
  req,       \* per request: <<>> or <<the request>>
  call,      \* per request: <<>> or <<the file.save call it issued>>
  resp,      \* per request: the responses sent
  log,       \* per request: the store calls that returned, each with <<>> or <<its error>>
  serial,    \* TRUE while every request arrived after all earlier ones were answered
  store,     \* the bucket: key -> object
  lastPut,   \* per key: the request whose put the store applied last
  retry      \* the invocation of retryWithBackoff; RetryOff while the handler is observed

\* the variables of the upload handler and of the store
uploadVars == <<traffic, now, pc, req, call, resp, log, serial, store, lastPut>>

vars == <<retry, traffic, now, pc, req, call, resp, log, serial, store, lastPut>>

\* no invocation of retryWithBackoff: uploadAsset does not use it
RetryOff ==
  [ pc |-> "off", maxRetries |-> 0, baseDelay |-> 0, i |-> 0,
    attempts |-> <<>>, delays |-> <<>>, outcome |-> <<>> ]

Init ==
  /\ traffic \in {"probe", "uploads"}
  /\ now = 0
  /\ pc = [r \in Req |-> "idle"]
  /\ req = [r \in Req |-> <<>>]
  /\ call = [r \in Req |-> <<>>]
  /\ resp = [r \in Req |-> <<>>]
  /\ log = [r \in Req |-> <<>>]
  /\ serial = TRUE
  /\ store = <<>>
  /\ lastPut = <<>>
  /\ retry = RetryOff

Inputs == IF traffic = "probe" THEN AnyRequests ELSE UploadRequests

\* res.status(..).json(..) / send(..) on a response that carries the CORS headers
Send(r) == [status |-> r.status, body |-> r.body, headers |-> setCorsHeaders]

\* variant: a put that keeps the content type and metadata of an existing object
PutKeepsMetadata(st, c) ==
  [ k \in DOMAIN st \cup {c.key} |->
      IF k = c.key
        THEN IF k \in DOMAIN st
               THEN [st[k] EXCEPT !.bytes = c.bytes, !.public = FALSE]
               ELSE [bytes |-> c.bytes, contentType |-> c.contentType,
                     metadata |-> c.metadata, public |-> FALSE]
        ELSE st[k] ]

\* variant: a put that replaces content type and metadata but keeps the bytes
\* of an existing object
PutKeepsBytes(st, c) ==
  [ k \in DOMAIN st \cup {c.key} |->
      IF k = c.key
        THEN [bytes |-> IF k \in DOMAIN st THEN st[k].bytes ELSE c.bytes,
              contentType |-> c.contentType,
              metadata |-> c.metadata, public |-> FALSE]
        ELSE st[k] ]

\* the store's put: the object at the key is replaced as a whole; a new
\* object is private until it is made public
Put(st, c) ==
  [ k \in DOMAIN st \cup {c.key} |->
      IF k = c.key
        THEN [bytes |-> c.bytes, contentType |-> c.contentType,
              metadata |-> c.metadata, public |-> FALSE]
        ELSE st[k] ]

\* the store's makePublic
MakePublic(st, key) == [st EXCEPT ![key].public = TRUE]

\* a request arrives and the handler runs until it responds or awaits file.save
Receive(r) ==
  /\ pc[r] = "idle"
  /\ IF r = 1 THEN TRUE ELSE traffic = "uploads" /\ pc[r - 1] # "idle"
  /\ \E rq \in Inputs :
       LET out == uploadAsset(rq, now + 1)
       IN  /\ req' = [req EXCEPT ![r] = <<rq>>]
           /\ IF out.kind = "respond"
                THEN /\ resp' = [resp EXCEPT ![r] = Append(@, Send(out.resp))]
                     /\ pc' = [pc EXCEPT ![r] = "done"]
                     /\ call' = call
                ELSE /\ call' = [call EXCEPT ![r] = <<out.call>>]
                     /\ pc' = [pc EXCEPT ![r] = "save"]
                     /\ resp' = resp
  /\ now' = now + 1
  /\ serial' = (serial /\ \A q \in 1..(r - 1) : pc[q] = "done")
  /\ UNCHANGED <<retry, traffic, log, store, lastPut>>

\* file.save resolves: the store has written the object, the handler calls makePublic
SaveResolved(r) ==
  /\ pc[r] = "save"
  /\ store' = Put(store, call[r][1])
  /\ lastPut' = [k \in DOMAIN lastPut \cup {call[r][1].key} |->
                   IF k = call[r][1].key THEN r ELSE lastPut[k]]
  /\ log' = [log EXCEPT ![r] = Append(@, [op |-> "save", err |-> <<>>])]
  /\ pc' = [pc EXCEPT ![r] = "publish"]
  /\ UNCHANGED <<retry, traffic, now, req, call, resp, serial>>

\* variant: a handler that calls file.save a second time after a rejection
SaveRejectedRetry(r) ==
  /\ pc[r] = "save"
  /\ \E e \in StoreErrors :
       /\ log' = [log EXCEPT ![r] = Append(@, [op |-> "save", err |-> <<e>>])]
       /\ IF log[r] = <<>>
            THEN /\ resp' = resp
                 /\ pc' = pc
            ELSE /\ resp' = [resp EXCEPT ![r] = Append(@, Send(Catch(req[r][1], e)))]
                 /\ pc' = [pc EXCEPT ![r] = "done"]
  /\ UNCHANGED <<retry, traffic, now, req, call, serial, store, lastPut>>

\* variant: a rejected file.save that has already removed the object at the key
SaveRejectedDestroys(r) ==
  /\ pc[r] = "save"
  /\ \E e \in StoreErrors :
       /\ resp' = [resp EXCEPT ![r] = Append(@, Send(Catch(req[r][1], e)))]
       /\ log' = [log EXCEPT ![r] = Append(@, [op |-> "save", err |-> <<e>>])]
  /\ store' = [k \in DOMAIN store \ {call[r][1].key} |-> store[k]]
  /\ pc' = [pc EXCEPT ![r] = "done"]
  /\ UNCHANGED <<retry, traffic, now, req, call, serial, lastPut>>

\* variant: a catch block that logs the failure and sends nothing
SaveRejectedSilent(r) ==
  /\ pc[r] = "save"
  /\ \E e \in StoreErrors :
       log' = [log EXCEPT ![r] = Append(@, [op |-> "save", err |-> <<e>>])]
  /\ pc' = [pc EXCEPT ![r] = "done"]
  /\ UNCHANGED <<retry, traffic, now, req, call, resp, serial, store, lastPut>>

\* file.save rejects: the catch block answers
SaveRejected(r) ==
  /\ pc[r] = "save"
  /\ \E e \in StoreErrors :
       /\ resp' = [resp EXCEPT ![r] = Append(@, Send(Catch(req[r][1], e)))]
       /\ log' = [log EXCEPT ![r] = Append(@, [op |-> "save", err |-> <<e>>])]
  /\ pc' = [pc EXCEPT ![r] = "done"]
  /\ UNCHANGED <<retry, traffic, now, req, call, serial, store, lastPut>>

\* variant: a handler that keeps fullPath in a variable shared by all
\* invocations, so that makePublic addresses the key computed most recently
PublicResolvedSharedPath(r) ==
  /\ pc[r] = "publish"
  /\ LET latest == CHOOSE q \in Req : call[q] # <<>> /\ \A p \in Req : call[p] # <<>> => p <= q
         key == call[latest][1].key
     IN  store' = IF key \in DOMAIN store THEN MakePublic(store, key) ELSE store
  /\ log' = [log EXCEPT ![r] = Append(@, [op |-> "makePublic", err |-> <<>>])]
  /\ resp' = [resp EXCEPT ![r] = Append(@, Send(Success(call[r][1])))]
  /\ pc' = [pc EXCEPT ![r] = "done"]
  /\ UNCHANGED <<retry, traffic, now, req, call, serial, lastPut>>

\* file.makePublic resolves: the object at the key is public, the handler answers 200
PublicResolved(r) ==
  /\ pc[r] = "publish"
  /\ store' = MakePublic(store, call[r][1].key)
  /\ log' = [log EXCEPT ![r] = Append(@, [op |-> "makePublic", err |-> <<>>])]
  /\ resp' = [resp EXCEPT ![r] = Append(@, Send(Success(call[r][1])))]
  /\ pc' = [pc EXCEPT ![r] = "done"]
  /\ UNCHANGED <<retry, traffic, now, req, call, serial, lastPut>>

\* variant: a makePublic failure that is swallowed, the handler answering 200
PublicRejectedSwallowed(r) ==
  /\ pc[r] = "publish"
  /\ \E e \in StoreErrors :
       /\ resp' = [resp EXCEPT ![r] = Append(@, Send(Success(call[r][1])))]
       /\ log' = [log EXCEPT ![r] = Append(@, [op |-> "makePublic", err |-> <<e>>])]
  /\ pc' = [pc EXCEPT ![r] = "done"]
  /\ UNCHANGED <<retry, traffic, now, req, call, serial, store, lastPut>>

\* variant: a makePublic failure that is rolled back by deleting the object
PublicRejectedRollback(r) ==
  /\ pc[r] = "publish"
  /\ \E e \in StoreErrors :
       /\ resp' = [resp EXCEPT ![r] = Append(@, Send(Catch(req[r][1], e)))]
       /\ log' = [log EXCEPT ![r] = Append(@, [op |-> "makePublic", err |-> <<e>>])]
  /\ store' = [k \in DOMAIN store \ {call[r][1].key} |-> store[k]]
  /\ pc' = [pc EXCEPT ![r] = "done"]
  /\ UNCHANGED <<retry, traffic, now, req, call, serial, lastPut>>

\* variant: a catch block that answers and lets the handler go on awaiting makePublic
PublicRejectedNotAbsorbing(r) ==
  /\ pc[r] = "publish"
  /\ Len(log[r]) < 3
  /\ \E e \in StoreErrors :
       /\ resp' = [resp EXCEPT ![r] = Append(@, Send(Catch(req[r][1], e)))]
       /\ log' = [log EXCEPT ![r] = Append(@, [op |-> "makePublic", err |-> <<e>>])]
  /\ UNCHANGED <<retry, traffic, now, pc, req, call, serial, store, lastPut>>

\* file.makePublic rejects: the catch block answers
PublicRejected(r) ==
  /\ pc[r] = "publish"
  /\ \E e \in StoreErrors :
       /\ resp' = [resp EXCEPT ![r] = Append(@, Send(Catch(req[r][1], e)))]
       /\ log' = [log EXCEPT ![r] = Append(@, [op |-> "makePublic", err |-> <<e>>])]
  /\ pc' = [pc EXCEPT ![r] = "done"]
  /\ UNCHANGED <<retry, traffic, now, req, call, serial, store, lastPut>>

Next ==
  \E r \in Req :
    \/ Receive(r)
    \/ SaveResolved(r)
    \/ SaveRejected(r)
    \/ PublicResolved(r)
    \/ PublicRejected(r)

Spec == Init /\ [][Next]_vars

\* every store call that is awaited returns: file.save and file.makePublic
\* resolve or reject
FairSpec ==
  /\ Spec
  /\ \A r \in Req : WF_vars(SaveResolved(r) \/ SaveRejected(r))
  /\ \A r \in Req : WF_vars(PublicResolved(r) \/ PublicRejected(r))

(***************************************************************************)
(* src/shared/utils.js: retryWithBackoff(fn, maxRetries, baseDelay).  fn is *)
(* any asynchronous function: each call of it resolves with a value or      *)
(* rejects with an error.  `retry` holds the arguments, the loop index i,   *)
(* the outcomes of the calls of fn so far, the delays given to setTimeout   *)
(* so far, and how the invocation ended.                                    *)
(***************************************************************************)
MaxRetriesBound == 3

MaxRetriesValues == (0 - 1)..MaxRetriesBound
BaseDelays == {1, 250, 1000}
FnValues == {"v1", "v2"}
FnErrors == {"e1", "e2"}

\* Math.pow(2, i)
RECURSIVE Pow2(_)
Pow2(n) == IF n <= 0 THEN 1 ELSE 2 * Pow2(n - 1)

\* how an invocation ends: return of a value, return without one, throw
ReturnedValue(v) == [kind |-> "value", of |-> v]
ReturnedUndefined == [kind |-> "undefined", of |-> ""]
Thrown(e) == [kind |-> "error", of |-> e]

RetryInit ==
  /\ traffic = "retry"
  /\ now = 0
  /\ pc = [r \in Req |-> "idle"]
  /\ req = [r \in Req |-> <<>>]
  /\ call = [r \in Req |-> <<>>]
  /\ resp = [r \in Req |-> <<>>]
  /\ log = [r \in Req |-> <<>>]
  /\ serial = TRUE
  /\ store = <<>>
  /\ lastPut = <<>>
  /\ retry \in { [ pc |-> "start", maxRetries |-> m, baseDelay |-> d, i |-> 0,
                   attempts |-> <<>>, delays |-> <<>>, outcome |-> <<>> ] :
                 m \in MaxRetriesValues, d \in BaseDelays }

\* the test of the for-loop and what follows it: the call of fn, or the end
\* of the function body, where the promise resolves with undefined
LoopTest(rt) ==
  IF rt.i < rt.maxRetries
    THEN [rt EXCEPT !.pc = "fn"]
    ELSE [rt EXCEPT !.pc = "returned", !.outcome = <<ReturnedUndefined>>]

\* retryWithBackoff is called: let i = 0 and the first test
RetryCalled ==
  /\ retry.pc = "start"
  /\ retry' = LoopTest(retry)
  /\ UNCHANGED uploadVars

\* await fn() resolves: return its value
FnResolved ==
  /\ retry.pc = "fn"
  /\ \E v \in FnValues :
       retry' = [retry EXCEPT !.attempts = Append(@, [ok |-> TRUE, of |-> v]),
                              !.pc = "returned",
                              !.outcome = <<ReturnedValue(v)>>]
  /\ UNCHANGED uploadVars

\* variant: a catch block that waits baseDelay after every failure
FnRejectedFixedDelay ==
  /\ retry.pc = "fn"
  /\ \E e \in FnErrors :
       retry' =
         IF retry.i = retry.maxRetries - 1
           THEN [retry EXCEPT !.attempts = Append(@, [ok |-> FALSE, of |-> e]),
                              !.pc = "thrown",
                              !.outcome = <<Thrown(e)>>]
           ELSE [retry EXCEPT !.attempts = Append(@, [ok |-> FALSE, of |-> e]),
                              !.delays = Append(@, retry.baseDelay),
                              !.pc = "sleep"]
  /\ UNCHANGED uploadVars

\* await fn() rejects: rethrow in the last round, otherwise setTimeout with
\* baseDelay * Math.pow(2, i)
FnRejected ==
  /\ retry.pc = "fn"
  /\ \E e \in FnErrors :
       retry' =
         IF retry.i = retry.maxRetries - 1
           THEN [retry EXCEPT !.attempts = Append(@, [ok |-> FALSE, of |-> e]),
                              !.pc = "thrown",
                              !.outcome = <<Thrown(e)>>]
           ELSE [retry EXCEPT !.attempts = Append(@, [ok |-> FALSE, of |-> e]),
                              !.delays = Append(@, retry.baseDelay * Pow2(retry.i)),
                              !.pc = "sleep"]
  /\ UNCHANGED uploadVars

\* the timer fires: i++ and the next test
TimerFired ==
  /\ retry.pc = "sleep"
  /\ retry' = LoopTest([retry EXCEPT !.i = @ + 1])
  /\ UNCHANGED uploadVars

RetryNext ==
  \/ RetryCalled
  \/ FnResolved
  \/ FnRejected
  \/ TimerFired

RetrySpec == RetryInit /\ [][RetryNext]_vars

(***************************************************************************)
(* Vocabulary of the properties.                                            *)
(***************************************************************************)
Arrived(r) == req[r] # <<>>
Done(r) == pc[r] = "done"
Rq(r) == req[r][1]
Answer(r) == resp[r][1]
Answered(r, status) == Done(r) /\ Len(resp[r]) = 1 /\ Answer(r).status = status
PutIssued(r) == call[r] # <<>>

IsJsonPost(rq) == rq.method = "POST" /\ rq.contentType \in HasJson
IsMultipartPost(rq) == rq.method = "POST" /\ rq.contentType \in HasMultipart
IsUploadPost(rq) == IsJsonPost(rq) \/ IsMultipartPost(rq)

\* the path value a request carries: the JSON field, or the value the form's text denotes
ClientPath(rq) ==
  IF rq.form = NoForm THEN rq.json.path ELSE JSONParse(rq.form[1].path.v).value

\* the path value reaches the path checks of the handler
PathPresent(rq) ==
  IF rq.form = NoForm THEN Truthy(rq.json.path)
  ELSE Truthy(rq.form[1].path) /\ JSONParse(rq.form[1].path.v).ok

\* the payload reaches the path checks: a non-empty string in `file` (JSON),
\* a part named `file` within the size limit (multipart)
PayloadPresent(rq) ==
  IF rq.form = NoForm
    THEN rq.json.file.t = "string" /\ rq.json.file.v # <<>>
    ELSE /\ rq.form[1].part # NoPart
         /\ rq.form[1].part[1].fieldname = "file"
         /\ BufLen(rq.form[1].part[1].content) <= FileSizeLimit

\* the request carries the bytes b as its payload, in the field the code reads
SendsBytes(rq, b) ==
  IF rq.form = NoForm
    THEN rq.json.file = Str(Base64Encode(b))
    ELSE rq.form[1].part # NoPart /\ rq.form[1].part[1].content = Buf(b)

AllWhiteSpace(chars) == \A i \in 1..Len(chars) : chars[i] \in WhiteSpace

\* a non-empty array of strings, each with a character that is not white space
ValidPath(p) ==
  /\ p.t = "array"
  /\ Len(p.v) >= 1
  /\ \A i \in 1..Len(p.v) : p.v[i].t = "string" /\ ~AllWhiteSpace(p.v[i].v)

\* an array with a segment that is an empty or white-space-only string
HasBlankSegment(p) ==
  /\ p.t = "array"
  /\ \E i \in 1..Len(p.v) : p.v[i].t = "string" /\ AllWhiteSpace(p.v[i].v)

\* the empty array, or no array at all
EmptyOrNoArray(p) == p.t # "array" \/ p.v = <<>>

\* well-formed base64: alphabet characters, length a multiple of 4, at most
\* two '=' and only at the end
WellFormedBase64(t) ==
  /\ Len(t) % 4 = 0
  /\ \A i \in 1..Len(t) :
       \/ \E j \in 1..Len(B64Alphabet) : B64Alphabet[j] = t[i]
       \/ t[i] = B64Pad /\ i >= Len(t) - 1 /\ \A k \in i..Len(t) : t[k] = B64Pad

ErrorIs(r, status, message) ==
  /\ Answered(r, status)
  /\ Answer(r).body.success = FALSE
  /\ Answer(r).body.error = message

(***************************************************************************)
(* C1: when an upload of a valid path p and a non-empty payload b is        *)
(* answered with success and no other put to the same key has been applied  *)
(* since its own, the store holds at key join(p, "/") exactly the bytes b,  *)
(* and the object is public.                                                *)
(***************************************************************************)
C1_RoundTrip ==
  \A r \in Req : \A b \in Payloads :
    ( /\ Answered(r, 200)
      /\ ValidPath(ClientPath(Rq(r)))
      /\ SendsBytes(Rq(r), b)
      /\ FullPath(ClientPath(Rq(r))) \in DOMAIN lastPut
      /\ lastPut[FullPath(ClientPath(Rq(r)))] = r )
    => /\ store[FullPath(ClientPath(Rq(r)))].bytes = Buf(b)
       /\ store[FullPath(ClientPath(Rq(r)))].public

C1_Witness ==
  \E r \in Req :
    /\ Answered(r, 200)
    /\ IsJsonPost(Rq(r))
    /\ SendsBytes(Rq(r), BytesHello)
    /\ <<"a", "/", "b">> \in DOMAIN lastPut
    /\ lastPut[<<"a", "/", "b">>] = r
    /\ store[<<"a", "/", "b">>].bytes = Buf(BytesHello)

(***************************************************************************)
(* C2: a JSON POST that carries the payload in the field `fileData`, with a *)
(* valid path and a non-empty payload b, is stored and answered 200 with    *)
(* data.filePath the '/'-joined path and data.size the length of b.         *)
(***************************************************************************)
C2_FileDataStored ==
  \A r \in Req : \A b \in Payloads :
    ( /\ Done(r)
      /\ IsJsonPost(Rq(r))
      /\ ValidPath(Rq(r).json.path)
      /\ Rq(r).json.file = Undefined
      /\ Rq(r).json.fileData = Str(Base64Encode(b)) )
    => /\ Answered(r, 200)
       /\ Answer(r).body.data.filePath = FullPath(Rq(r).json.path)
       /\ Answer(r).body.data.size = Len(b)

C4_MalformedRejected ==
  \A r \in Req :
    ( /\ Arrived(r)
      /\ IsJsonPost(Rq(r))
      /\ ValidPath(Rq(r).json.path)
      /\ Rq(r).json.file.t = "string"
      /\ Rq(r).json.file.v # <<>>
      /\ ~WellFormedBase64(Rq(r).json.file.v) )
    => ErrorIs(r, 400, MsgBase64) /\ ~PutIssued(r)

(***************************************************************************)
(* C5: two successful uploads to the same path report the same key and the  *)
(* same public URL, and the later write replaces the earlier one as a       *)
(* whole: when the put of the second is the last one applied to the key -   *)
(* as it is when the uploads are sequential and no later request writes the *)
(* key - the store holds exactly the object of the second request: its      *)
(* bytes, content type and metadata.                                        *)
(***************************************************************************)
SameKeyLater(r) ==
  \E q \in Req : q > r /\ call[q] # <<>> /\ call[q][1].key = call[r][1].key

C5_LastWriteWins ==
  \A r1 \in Req : \A r2 \in Req \ {r1} :
    ( /\ Answered(r1, 200)
      /\ Answered(r2, 200)
      /\ ClientPath(Rq(r1)) = ClientPath(Rq(r2)) )
    => /\ Answer(r1).body.data.filePath = Answer(r2).body.data.filePath
       /\ Answer(r1).body.data.publicUrl = Answer(r2).body.data.publicUrl
       /\ (serial /\ r1 < r2 /\ ~SameKeyLater(r2)) => lastPut[call[r2][1].key] = r2
       /\ lastPut[call[r2][1].key] = r2
          => /\ store[Answer(r1).body.data.filePath] =
                  [ bytes |-> call[r2][1].bytes,
                    contentType |-> call[r2][1].contentType,
                    metadata |-> call[r2][1].metadata,
                    public |-> TRUE ]
             /\ \A b \in Payloads :
                  SendsBytes(Rq(r2), b) => store[call[r2][1].key].bytes = Buf(b)

C5_Witness ==
  \E r1 \in Req : \E r2 \in Req \ {r1} :
    /\ Answered(r1, 200)
    /\ Answered(r2, 200)
    /\ serial
    /\ r1 < r2
    /\ ClientPath(Rq(r1)) = PathA
    /\ ClientPath(Rq(r2)) = PathA
    /\ SendsBytes(Rq(r1), BytesHello)
    /\ SendsBytes(Rq(r2), BytesHi)
    /\ call[r1][1].contentType # call[r2][1].contentType
    /\ store[<<"a">>].bytes = Buf(BytesHi)

(***************************************************************************)
(* C6: a request answered 200 had its put succeed and then its makePublic   *)
(* succeed, both before the response; makePublic is never called for a      *)
(* request whose put did not succeed; no 200 is sent when a step failed.    *)
(***************************************************************************)
SaveOk == [op |-> "save", err |-> <<>>]
PublicOk == [op |-> "makePublic", err |-> <<>>]

C6_SuccessMeansBothSteps ==
  \A r \in Req :
    /\ (resp[r] # <<>> /\ Answer(r).status = 200) => log[r] = <<SaveOk, PublicOk>>
    /\ pc[r] = "publish" => log[r] = <<SaveOk>>
    /\ \A i \in 1..Len(log[r]) :
         /\ log[r][i].op = "makePublic" => (i = 2 /\ log[r][1] = SaveOk)
         /\ log[r][i].err # <<>> => (Len(resp[r]) = 1 /\ Answer(r).status # 200)

C6_Witness ==
  \E r \in Req : Answered(r, 200) /\ log[r] = <<SaveOk, PublicOk>>

(***************************************************************************)
(* C7: when put succeeds and makePublic then fails, the caller receives an  *)
(* error response, no delete or rollback is issued, and the store still     *)
(* holds the bytes the request wrote (as long as no other request's put to  *)
(* the key was applied after its own).                                      *)
(***************************************************************************)
PublishFailed(r) ==
  /\ Len(log[r]) = 2
  /\ log[r][1] = SaveOk
  /\ log[r][2].op = "makePublic"
  /\ log[r][2].err # <<>>

C7_NoRollback ==
  \A r \in Req :
    PublishFailed(r)
    => /\ Len(resp[r]) = 1
       /\ Answer(r).status \in {403, 404, 500}
       /\ Answer(r).body.success = FALSE
       /\ call[r][1].key \in DOMAIN store
       /\ lastPut[call[r][1].key] = r => store[call[r][1].key].bytes = call[r][1].bytes

C7_Witness ==
  \E r \in Req :
    /\ PublishFailed(r)
    /\ Done(r)
    /\ lastPut[call[r][1].key] = r
    /\ store[call[r][1].key].bytes = Buf(BytesHello)
    /\ ~store[call[r][1].key].public

(***************************************************************************)
(* C8: a failure of put or makePublic is mapped by its code: 404 gives HTTP *)
(* 404 with a message naming the bucket, 403 gives HTTP 403, every other    *)
(* failure gives HTTP 500, in the JSON branch and in the multipart branch.  *)
(***************************************************************************)
C8_StoreErrorMapping ==
  \A r \in Req :
    (log[r] # <<>> /\ log[r][Len(log[r])].err # <<>>)
    => LET e == log[r][Len(log[r])].err[1]
       IN  /\ Len(resp[r]) = 1
           /\ e.code = <<404>> =>
                ErrorIs(r, 404,
                  "Bucket 'espaze-seller-product-assets' not found. Please create it first.")
           /\ e.code = <<403>> => Answered(r, 403) /\ Answer(r).body.success = FALSE
           /\ e.code \notin {<<404>>, <<403>>} =>
                Answered(r, 500) /\ Answer(r).body.success = FALSE

C8_Witness ==
  /\ \E r \in Req :
       /\ Arrived(r)
       /\ IsMultipartPost(Rq(r))
       /\ log[r] # <<>>
       /\ log[r][Len(log[r])].err = << [code |-> <<403>>, message |-> "Forbidden"] >>
       /\ Answered(r, 403)
  /\ \E r \in Req :
       /\ Arrived(r)
       /\ IsJsonPost(Rq(r))
       /\ log[r] # <<>>
       /\ log[r][Len(log[r])].err = << [code |-> <<>>, message |-> "socket hang up"] >>
       /\ Answered(r, 500)

(***************************************************************************)
(* C9: a request whose method is neither POST nor OPTIONS is answered 405   *)
(* whatever its content type and body, and issues no put and no makePublic: *)
(* the store is unchanged.                                                  *)
(***************************************************************************)
C9_MethodGate ==
  \A r \in Req :
    (Arrived(r) /\ Rq(r).method \notin {"POST", "OPTIONS"})
    => /\ ErrorIs(r, 405, MsgMethod)
       /\ ~PutIssued(r)
       /\ log[r] = <<>>
       /\ traffic = "probe" => store = <<>>

C9_Witness ==
  \E r \in Req :
    /\ Arrived(r)
    /\ Rq(r).method = "DELETE"
    /\ Rq(r).contentType = "application/json"
    /\ Rq(r).json.path = PathA
    /\ Rq(r).json.file = Str(Base64Encode(BytesHi))
    /\ Answered(r, 405)

HasSeparator(chars) == \E i \in 1..Len(chars) : chars[i] = "/"

C11_PutKeysFromCleanPaths ==
  \A r \in Req :
    PutIssued(r)
    => /\ ValidPath(ClientPath(Rq(r)))
       /\ call[r][1].key = FullPath(ClientPath(Rq(r)))
       /\ \A i \in 1..Len(ClientPath(Rq(r)).v) : ~HasSeparator(ClientPath(Rq(r)).v[i].v)

(***************************************************************************)
(* C12: no put is issued with a zero-length byte sequence: a JSON or       *)
(* multipart upload whose payload is empty is answered 400 and issues no   *)
(* store call.                                                             *)
(***************************************************************************)
\* the payload the request delivers to the handler is empty
EmptyPayload(rq) ==
  IF rq.form = NoForm
    THEN rq.json.file.t = "string" /\ BufLen(BufferFrom(rq.json.file).buffer) = 0
    ELSE /\ rq.form[1].part # NoPart
         /\ rq.form[1].part[1].fieldname = "file"
         /\ BufLen(rq.form[1].part[1].content) = 0

C12_NoEmptyPut ==
  \A r \in Req :
    /\ PutIssued(r) => BufLen(call[r][1].bytes) > 0
    /\ (Arrived(r) /\ IsUploadPost(Rq(r)) /\ EmptyPayload(Rq(r)))
       => Answered(r, 400) /\ ~PutIssued(r) /\ log[r] = <<>>

(***************************************************************************)
(* C13: the key of a put is the segments of the path in input order, each  *)
(* taken unchanged, with one "/" between neighbours and nothing else: a    *)
(* one-segment path gives the segment itself, the key ends with the last   *)
(* segment, and data.filePath of the success response is this key.         *)
(***************************************************************************)
\* where segment i starts in the key: after the earlier segments and their separators
RECURSIVE SegmentOffset(_, _)
SegmentOffset(segs, i) ==
  IF i = 1 THEN 0 ELSE SegmentOffset(segs, i - 1) + Len(segs[i - 1].v) + 1

KeyOfSegments(key, segs) ==
  /\ Len(key) = SegmentOffset(segs, Len(segs)) + Len(segs[Len(segs)].v)
  /\ \A i \in 1..Len(segs) :
       /\ SubSeq(key, SegmentOffset(segs, i) + 1,
                      SegmentOffset(segs, i) + Len(segs[i].v)) = segs[i].v
       /\ i < Len(segs) => key[SegmentOffset(segs, i) + Len(segs[i].v) + 1] = "/"

C13_KeyIsJoinedPath ==
  \A r \in Req :
    PutIssued(r)
    => /\ KeyOfSegments(call[r][1].key, ClientPath(Rq(r)).v)
       /\ Len(ClientPath(Rq(r)).v) = 1 => call[r][1].key = ClientPath(Rq(r)).v[1].v
       /\ Answered(r, 200) => Answer(r).body.data.filePath = call[r][1].key

C13_Witness ==
  \E r \in Req :
    /\ Answered(r, 200)
    /\ ClientPath(Rq(r)) = PathPadded
    /\ Answer(r).body.data.filePath = <<" ", "a">>
    /\ <<" ", "a">> \in DOMAIN store

(***************************************************************************)
(* C14: when two uploads to the same key have both been answered with      *)
(* success, however their put and makePublic steps interleaved, the object *)
(* at the key is the whole object (bytes, content type, metadata) of the   *)
(* one of them whose put the store applied last, and it is public.         *)
(***************************************************************************)
\* the public object that the put of a request writes
PublicObjectOf(r) ==
  [ bytes |-> call[r][1].bytes,
    contentType |-> call[r][1].contentType,
    metadata |-> call[r][1].metadata,
    public |-> TRUE ]

C14_ConcurrentSameKey ==
  \A r1 \in Req : \A r2 \in Req \ {r1} :
    ( /\ Answered(r1, 200)
      /\ Answered(r2, 200)
      /\ call[r1][1].key = call[r2][1].key
      /\ lastPut[call[r1][1].key] \in {r1, r2} )
    => /\ store[call[r1][1].key] = PublicObjectOf(lastPut[call[r1][1].key])
       /\ store[call[r1][1].key] \in {PublicObjectOf(r1), PublicObjectOf(r2)}

\* both puts were issued before either was applied, and the put of the
\* request that arrived first was applied last
C14_Witness ==
  /\ ~serial
  /\ Answered(1, 200)
  /\ Answered(2, 200)
  /\ call[1][1].key = <<"a">>
  /\ call[2][1].key = <<"a">>
  /\ call[1][1].bytes = Buf(BytesHi)
  /\ call[2][1].bytes = Buf(BytesHello)
  /\ lastPut[<<"a">>] = 1
  /\ store[<<"a">>] = PublicObjectOf(1)

(***************************************************************************)
(* C15: invocations share no mutable state.  For two finished uploads to   *)
(* different keys, whatever the interleaving of their steps, each response *)
(* is the one the handler gives when it runs alone on the same request     *)
(* with the same clock reading and the same outcomes of its own store      *)
(* calls, and the objects at the two keys are those left by running the    *)
(* two one after the other, in either order.                               *)
(***************************************************************************)
\* the handler run alone on the request of r; the r-th arrival reads the clock at r
HandlerAlone(r) == uploadAsset(Rq(r), r)

\* its answer, given the outcomes of its store calls
AnswerAlone(r) ==
  IF HandlerAlone(r).kind = "respond" THEN HandlerAlone(r).resp
  ELSE IF log[r] = <<SaveOk, PublicOk>> THEN Success(HandlerAlone(r).call)
  ELSE Catch(Rq(r), log[r][Len(log[r])].err[1])

\* the store after running it alone from the store st
StoreAfter(st, r) ==
  IF HandlerAlone(r).kind = "respond" \/ log[r][1] # SaveOk THEN st
  ELSE IF log[r] = <<SaveOk, PublicOk>>
    THEN MakePublic(Put(st, HandlerAlone(r).call), HandlerAlone(r).call.key)
  ELSE Put(st, HandlerAlone(r).call)

\* no other request has issued a put to the key of r
KeyOwnedBy(r) ==
  \A q \in Req \ {r} : PutIssued(q) => call[q][1].key # call[r][1].key

C15_NoSharedState ==
  \A r1 \in Req : \A r2 \in Req \ {r1} :
    ( /\ Done(r1) /\ PutIssued(r1) /\ KeyOwnedBy(r1)
      /\ Done(r2) /\ PutIssued(r2) /\ KeyOwnedBy(r2) )
    => LET s12 == StoreAfter(StoreAfter(<<>>, r1), r2)
           s21 == StoreAfter(StoreAfter(<<>>, r2), r1)
       IN  /\ resp[r1] = <<Send(AnswerAlone(r1))>>
           /\ resp[r2] = <<Send(AnswerAlone(r2))>>
           /\ s12 = s21
           /\ \A k \in {call[r1][1].key, call[r2][1].key} :
                /\ k \in DOMAIN store <=> k \in DOMAIN s12
                /\ k \in DOMAIN store => store[k] = s12[k]

\* the second upload arrived and was stored and answered while the first
\* was still waiting for its own store calls
C15_Witness ==
  /\ ~serial
  /\ Answered(1, 200)
  /\ Answered(2, 200)
  /\ call[1][1].key = <<"a", "/", "b">>
  /\ call[2][1].key = <<"a">>
  /\ store[<<"a">>] = PublicObjectOf(2)
  /\ store[<<"a", "/", "b">>] = PublicObjectOf(1)

(***************************************************************************)
(* C16: within one request file.save is called at most once and            *)
(* makePublic at most once; a call that fails is the last store call of    *)
(* the request, which is answered at once with an error: nothing is        *)
(* retried.                                                                *)
(***************************************************************************)
\* the store calls of r that have returned, and the one still awaited
Returned(r, op) == {i \in 1..Len(log[r]) : log[r][i].op = op}
Awaited(r, op) == IF pc[r] = op THEN 1 ELSE 0

C16_NoRetry ==
  \A r \in Req :
    /\ Cardinality(Returned(r, "save")) + Awaited(r, "save") <= 1
    /\ Cardinality(Returned(r, "makePublic")) + Awaited(r, "publish") <= 1
    /\ \A i \in 1..Len(log[r]) :
         log[r][i].err # <<>>
         => /\ i = Len(log[r])
            /\ Done(r)
            /\ Len(resp[r]) = 1
            /\ Answer(r).status \in {403, 404, 500}

C16_Witness ==
  \E r \in Req :
    /\ Answered(r, 500)
    /\ Len(log[r]) = 1
    /\ log[r][1].op = "save"
    /\ log[r][1].err = <<[code |-> <<503>>, message |-> "Service Unavailable"]>>

(***************************************************************************)
(* C17: the body of a 500 response after a backend fault does not depend   *)
(* on the backend error: two requests that are alike and fail with 500 at  *)
(* the store receive the same response body, whatever the texts of the     *)
(* two store errors.                                                       *)
(***************************************************************************)
C17_GenericFaultBody ==
  \A r1 \in Req : \A r2 \in Req :
    ( /\ Answered(r1, 500)
      /\ Answered(r2, 500)
      /\ Rq(r1) = Rq(r2) )
    => Answer(r1).body = Answer(r2).body

(***************************************************************************)
(* C18: a POST whose content-type header contains neither                  *)
(* 'multipart/form-data' nor 'application/json', or that has no such       *)
(* header, is answered 400 with the content-type error; the answer is the  *)
(* same whatever body the request carries, and no store call is made.      *)
(***************************************************************************)
C18_UnsupportedMediaType ==
  \A r \in Req :
    ( /\ Arrived(r)
      /\ Rq(r).method = "POST"
      /\ Rq(r).contentType \notin HasMultipart \cup HasJson )
    => /\ Done(r)
       /\ resp[r] = << [ status |-> 400,
                         body |-> [success |-> FALSE, error |-> MsgContentType],
                         headers |-> setCorsHeaders ] >>
       /\ ~PutIssued(r)
       /\ log[r] = <<>>
       /\ store = <<>>

\* an upload that is complete and valid but for its content type
C18_Witness ==
  \E r \in Req :
    /\ Answered(r, 400)
    /\ Rq(r).method = "POST"
    /\ Rq(r).contentType = "text/xml"
    /\ Rq(r).json.path = PathA
    /\ Rq(r).json.file = Str(Base64Encode(BytesHi))
    /\ Answer(r).body.error = MsgContentType

(***************************************************************************)
(* C19: every success response has status 200 and data made of the fixed   *)
(* bucket name, the key that was written, the URL                          *)
(* 'https://storage.googleapis.com/' + bucket + '/' + key, the byte length *)
(* of the payload passed to put and the content type passed to put; while  *)
(* the put of the request is the last one applied to the key, these are    *)
(* the length and content type of the stored object.                       *)
(***************************************************************************)
C19_SuccessResponse ==
  \A r \in Req :
    (resp[r] # <<>> /\ Answer(r).status = 200)
    => /\ Len(resp[r]) = 1
       /\ Answer(r).body.success
       /\ PutIssued(r)
       /\ Answer(r).body.data =
            [ bucket |-> "espaze-seller-product-assets",
              filePath |-> call[r][1].key,
              publicUrl |-> <<"https://storage.googleapis.com/",
                              "espaze-seller-product-assets", "/">> \o call[r][1].key,
              size |-> BufLen(call[r][1].bytes),
              mimeType |-> call[r][1].contentType ]
       /\ lastPut[call[r][1].key] = r
          => /\ Answer(r).body.data.size = BufLen(store[call[r][1].key].bytes)
             /\ Answer(r).body.data.mimeType = store[call[r][1].key].contentType

C19_Witness ==
  \E r \in Req :
    /\ Answered(r, 200)
    /\ IsMultipartPost(Rq(r))
    /\ Answer(r).body.data =
         [ bucket |-> BUCKET_NAME,
           filePath |-> <<"a">>,
           publicUrl |-> <<"https://storage.googleapis.com/", BUCKET_NAME, "/", "a">>,
           size |-> 11,
           mimeType |-> Str(<<"image/png">>) ]

(***************************************************************************)
(* C20, as claimed: once an upload to a key has been answered with         *)
(* success, the object at the key is public in every later state, also     *)
(* while and after later uploads overwrite the key or fail.                *)
(***************************************************************************)
C20_Original ==
  \A r \in Req :
    Answered(r, 200)
    => /\ call[r][1].key \in DOMAIN store
       /\ store[call[r][1].key].public

(***************************************************************************)
(* C20, amended: a public object stays public until a put to its key is    *)
(* applied.  No other step demotes or removes it: not the arrival of a     *)
(* request, not a put that fails, not a makePublic that succeeds or fails. *)
(* The object written by an applied put is private until a makePublic on   *)
(* the key succeeds; after a successful upload, the object is public as    *)
(* long as no later put to the key has been applied.                       *)
(***************************************************************************)
\* the step applies a put to the key k
PutApplied(k) ==
  \E r \in Req : pc[r] = "save" /\ pc'[r] = "publish" /\ call[r][1].key = k

C20_StaysPublic ==
  \A k \in DOMAIN store :
    /\ k \in DOMAIN store'
    /\ store[k].public => (store'[k].public \/ PutApplied(k))
    /\ PutApplied(k) => ~store'[k].public

C20_SuccessIsPublic ==
  \A r \in Req :
    (Answered(r, 200) /\ lastPut[call[r][1].key] = r) => store[call[r][1].key].public

C20_PublicUntilOverwritten == []C20_SuccessIsPublic /\ [][C20_StaysPublic]_vars

\* after a successful upload, a later upload to the key has failed at put
C20_Witness ==
  /\ serial
  /\ Answered(1, 200)
  /\ PutIssued(2)
  /\ call[2][1].key = call[1][1].key
  /\ Done(2)
  /\ log[2][1].err # <<>>
  /\ store[call[1][1].key] = PublicObjectOf(1)

(***************************************************************************)
(* C21: a request sends at most one response, and it has sent exactly one  *)
(* when it has ended; the response is either the success response or an    *)
(* error response.  Ending is absorbing: once a request has been answered, *)
(* no step sends another response for it, issues or completes a store call *)
(* for it, or changes its state.                                           *)
(***************************************************************************)
C21_OneResponse ==
  \A r \in Req :
    /\ Len(resp[r]) <= 1
    /\ Done(r) <=> Len(resp[r]) = 1
    /\ Done(r) => \/ Answer(r).status = 204
                  \/ Answer(r).status = 200 /\ Answer(r).body.success
                  \/ Answer(r).status \notin {200, 204} /\ ~Answer(r).body.success

C21_Absorbing ==
  \A r \in Req :
    Done(r) => /\ pc'[r] = "done"
               /\ resp'[r] = resp[r]
               /\ log'[r] = log[r]
               /\ call'[r] = call[r]
               /\ (Answer(r).status \notin {200, 204} /\ PutIssued(r)
                   /\ call[r][1].key \in DOMAIN store /\ KeyOwnedBy(r))
                  => store'[call[r][1].key] = store[call[r][1].key]

C21_TerminalOutcome == []C21_OneResponse /\ [][C21_Absorbing]_vars

\* the first upload has failed at the store and the second has gone on to success
C21_Witness ==
  /\ Answered(1, 500)
  /\ log[1] # <<>>
  /\ Answered(2, 200)
  /\ ~serial
  /\ lastPut[call[2][1].key] = 2

(***************************************************************************)
(* C22: when every awaited store call returns, every request that has      *)
(* arrived is eventually answered, whatever it carries (a body without any *)
(* field included) and whether its store calls succeed or fail.            *)
(***************************************************************************)
C22_EventuallyAnswered ==
  \A r \in Req : Arrived(r) ~> (Done(r) /\ Len(resp[r]) = 1)

\* a JSON POST without any field in its body has been answered
C22_Witness ==
  \E r \in Req :
    /\ Arrived(r)
    /\ IsJsonPost(Rq(r))
    /\ Rq(r).json = NoJson
    /\ ErrorIs(r, 400, MsgMissingJson)

(***************************************************************************)
(* C23: every response to a failed request has a body with success false   *)
(* and a non-empty error message and nothing else but, possibly, details;  *)
(* details are present exactly when a non-empty detail was given (the      *)
(* message of the multipart parser's error or of a backend fault); the     *)
(* status is one of 400, 403, 404, 405, 415, 500.                          *)
(***************************************************************************)
ErrorStatuses == {400, 403, 404, 405, 415, 500}

\* the statuses of responses that do not report a failure
OkStatuses == {200, 204}

C23_ErrorResponses ==
  /\ \A r \in Req :
       (resp[r] # <<>> /\ Answer(r).status \notin OkStatuses)
       => /\ Answer(r).status \in ErrorStatuses
          /\ {"success", "error"} \subseteq DOMAIN Answer(r).body
          /\ DOMAIN Answer(r).body \subseteq {"success", "error", "details"}
          /\ Answer(r).body.success = FALSE
          /\ Answer(r).body.error # ""
          /\ "details" \in DOMAIN Answer(r).body
             <=> \/ Answer(r).body.error = MsgMulter
                 \/ Answer(r).status = 500
          /\ "details" \in DOMAIN Answer(r).body => Answer(r).body.details # ""
  /\ \A d \in {NoDetails, <<"">>, <<"socket hang up">>} :
       "details" \in DOMAIN errorResponse(500, MsgFailed, d).body
       <=> (d # NoDetails /\ d[1] # "")

C23_Witness ==
  \E r \in Req :
    /\ ErrorIs(r, 500, MsgFailed)
    /\ Answer(r).body.details = "socket hang up"
    /\ log[r] = <<SaveOk, [op |-> "makePublic",
                           err |-> <<[code |-> <<>>, message |-> "socket hang up"]>>]>>

(***************************************************************************)
(* C24: a multipart POST is answered with an error and no store call is    *)
(* made when its path field is missing, when its path field is not valid   *)
(* JSON, when it has no file part, or when its part `file` is larger than  *)
(* 100 MiB; the last case is reported as a file that is too large.  A      *)
(* multipart POST with a valid path and a part `file` within the bound     *)
(* issues its put.                                                         *)
(***************************************************************************)
PathFieldMissing(rq) == ~Truthy(rq.form[1].path)
PathFieldNotJson(rq) == Truthy(rq.form[1].path) /\ ~JSONParse(rq.form[1].path.v).ok
FilePartMissing(rq) == rq.form[1].part = NoPart
FilePartTooLarge(rq) ==
  /\ rq.form[1].part # NoPart
  /\ rq.form[1].part[1].fieldname = "file"
  /\ BufLen(rq.form[1].part[1].content) > 100 * 1024 * 1024

C25_Preflight ==
  \A r \in Req :
    (Arrived(r) /\ Rq(r).method = "OPTIONS")
    => /\ Done(r)
       /\ Len(resp[r]) = 1
       /\ Answer(r).status = 204
       /\ Answer(r).body = ""
       /\ Answer(r).headers.allowOrigin = "*"
       /\ Answer(r).headers.allowMethods = "GET, POST, PUT, DELETE, OPTIONS"
       /\ Answer(r).headers.allowHeaders = "Content-Type, Authorization"
       /\ ~PutIssued(r)
       /\ log[r] = <<>>
       /\ store = <<>>

\* a preflight that carries a complete multipart upload
C25_Witness ==
  \E r \in Req :
    /\ Answered(r, 204)
    /\ Rq(r).method = "OPTIONS"
    /\ Rq(r).contentType \in HasMultipart
    /\ ValidPath(ClientPath(Rq(r)))
    /\ PayloadPresent(Rq(r))

(***************************************************************************)
(* C26: the declared file name does not influence addressing.  A request   *)
(* and the same request with another fileName (JSON) or another original   *)
(* name of the part (multipart), handled at the same time, are rejected    *)
(* alike or write the same bytes with the same content type to the same    *)
(* key and are answered with the same filePath and publicUrl; the two      *)
(* objects differ at most in metadata.originalFileName.                    *)
(***************************************************************************)
OtherNames == {Undefined, Str(<<"other.bin">>)}
OtherOriginalNames == {"logo.png"}

\* the requests that differ from rq in the declared file name only
RenamedRequests(rq) ==
  IF rq.form = NoForm
    THEN { [rq EXCEPT !.json.fileName = n] : n \in OtherNames }
    ELSE IF rq.form[1].part = NoPart THEN {rq}
    ELSE { [rq EXCEPT !.form = << [rq.form[1] EXCEPT !.part =
                                     << [rq.form[1].part[1] EXCEPT !.originalname = n] >>] >>] :
             n \in OtherOriginalNames }

\* the call without the declared name
Unnamed(c) == [c EXCEPT !.metadata.originalFileName = ""]

C26_NameNotInKey ==
  \A r \in Req :
    (Arrived(r) /\ pc[r] \in {"save", "done"} /\ log[r] = <<>>)
    => \A rq2 \in RenamedRequests(Rq(r)) :
         \A other \in {uploadAsset(rq2, r)} :
           IF PutIssued(r)
             THEN /\ other.kind = "save"
                  /\ other.call.key = call[r][1].key
                  /\ Unnamed(other.call) = Unnamed(call[r][1])
                  /\ Success(other.call) = Success(call[r][1])
             ELSE /\ other.kind = "respond"
                  /\ resp[r] = <<Send(other.resp)>>

\* an upload that declares a file name has been stored under its path alone
C26_Witness ==
  \E r \in Req :
    /\ Answered(r, 200)
    /\ IsJsonPost(Rq(r))
    /\ Rq(r).json.fileName = Str(<<"hello.txt">>)
    /\ ClientPath(Rq(r)) = PathAB
    /\ Answer(r).body.data.filePath = <<"a", "/", "b">>
    /\ lastPut[<<"a", "/", "b">>] = r
    /\ store[<<"a", "/", "b">>].metadata.originalFileName = Str(<<"hello.txt">>)

(***************************************************************************)
(* C27, as claimed: in JSON mode the content type given to put, and        *)
(* data.mimeType of the success response, are the request's mimeType when  *)
(* the request has one and 'application/octet-stream' when it has none;    *)
(* the custom metadata are originalFileName (the request's fileName when   *)
(* it has one, 'file' when it has none), the time of the upload and        *)
(* uploadedBy 'uploadAsset-function'.                                      *)
(***************************************************************************)
Given(x) == x.t # "undefined"

C27_Original ==
  \A r \in Req :
    (PutIssued(r) /\ IsJsonPost(Rq(r)))
    => /\ call[r][1].contentType =
            (IF Given(Rq(r).json.mimeType) THEN Rq(r).json.mimeType
             ELSE Str(<<"application/octet-stream">>))
       /\ call[r][1].metadata.originalFileName =
            (IF Given(Rq(r).json.fileName) THEN Rq(r).json.fileName
             ELSE Str(<<"file">>))

(***************************************************************************)
(* C27, amended: the request's mimeType and fileName are used when they    *)
(* are given and not empty; when they are absent or the empty string, the  *)
(* content type is 'application/octet-stream' and originalFileName is      *)
(* 'file'.  The content type is the one stored and the one reported as     *)
(* data.mimeType; the metadata also hold the time of the upload and        *)
(* uploadedBy 'uploadAsset-function'.                                      *)
(***************************************************************************)
GivenNotEmpty(x) == x.t # "undefined" /\ x # Str(<<>>)

C27_JsonDefaults ==
  \A r \in Req :
    (PutIssued(r) /\ IsJsonPost(Rq(r)))
    => /\ call[r][1].contentType =
            (IF GivenNotEmpty(Rq(r).json.mimeType) THEN Rq(r).json.mimeType
             ELSE Str(<<"application/octet-stream">>))
       /\ call[r][1].metadata =
            [ originalFileName |->
                (IF GivenNotEmpty(Rq(r).json.fileName) THEN Rq(r).json.fileName
                 ELSE Str(<<"file">>)),
              uploadedAt |-> r,
              uploadedBy |-> "uploadAsset-function" ]
       /\ Answered(r, 200) => Answer(r).body.data.mimeType = call[r][1].contentType
       /\ (pc[r] \in {"publish", "done"} /\ log[r][1] = SaveOk /\ lastPut[call[r][1].key] = r)
          => /\ store[call[r][1].key].contentType = call[r][1].contentType
             /\ store[call[r][1].key].metadata = call[r][1].metadata

\* an upload with an empty mimeType and an empty fileName has been stored
C27_Witness ==
  \E r \in Req :
    /\ Answered(r, 200)
    /\ IsJsonPost(Rq(r))
    /\ Rq(r).json.mimeType = Str(<<>>)
    /\ Rq(r).json.fileName = Str(<<>>)
    /\ store[call[r][1].key].contentType = Str(<<"application/octet-stream">>)
    /\ store[call[r][1].key].metadata.originalFileName = Str(<<"file">>)
    /\ Answer(r).body.data.mimeType = Str(<<"application/octet-stream">>)

(***************************************************************************)
(* C28: different accepted paths are stored under different keys: the key  *)
(* of a put is not the key of any other path that passes the path checks,  *)
(* and two puts issued for different paths go to different keys.           *)
(***************************************************************************)
\* the paths of the model that pass the checks of the handler
AcceptedPaths == {p \in JsonPaths : IsArray(p) /\ ~BadPathArray(p) /\ ~BadSegment(p)}

C28_DistinctPathsDistinctKeys ==
  /\ \A r \in Req :
       PutIssued(r)
       => \A p \in AcceptedPaths :
            p # ClientPath(Rq(r)) => FullPath(p) # call[r][1].key
  /\ \A r1 \in Req : \A r2 \in Req :
       (PutIssued(r1) /\ PutIssued(r2) /\ ClientPath(Rq(r1)) # ClientPath(Rq(r2)))
       => call[r1][1].key # call[r2][1].key

(***************************************************************************)
(* C29: retryWithBackoff calls fn one attempt at a time and never more     *)
(* than maxRetries times; only the last attempt made can have succeeded,   *)
(* and its value is what the function then returns; after the failed       *)
(* attempt number i (from 0) that is not the last allowed one it waits     *)
(* baseDelay * 2^i, and it does not wait after the last one; when          *)
(* maxRetries attempts have failed it throws the error of the last one.    *)
(***************************************************************************)
\* the attempts that have failed
Failures(rt) == {k \in 1..Len(rt.attempts) : ~rt.attempts[k].ok}

C29_RetryWithBackoff ==
  retry.pc # "off"
  => LET n == Len(retry.attempts)
     IN  /\ n <= (IF retry.maxRetries > 0 THEN retry.maxRetries ELSE 0)
         /\ \A k \in 1..(n - 1) : ~retry.attempts[k].ok
         /\ retry.pc = "fn" => (n = retry.i /\ Failures(retry) = 1..n)
         /\ (n > 0 /\ retry.attempts[n].ok)
            => /\ retry.pc = "returned"
               /\ retry.outcome = <<ReturnedValue(retry.attempts[n].of)>>
         /\ (retry.pc = "returned" /\ retry.maxRetries >= 1)
            => (n > 0 /\ retry.attempts[n].ok)
         /\ Len(retry.delays) =
              Cardinality(Failures(retry)) - (IF retry.pc = "thrown" THEN 1 ELSE 0)
         /\ \A k \in 1..Len(retry.delays) :
              /\ retry.delays[k] = retry.baseDelay * (2 ^ (k - 1))
              /\ ~retry.attempts[k].ok
              /\ k < retry.maxRetries
         /\ retry.pc = "sleep" => Len(retry.delays) = n
         /\ retry.pc = "thrown"
            <=> (n = retry.maxRetries /\ n > 0 /\ Failures(retry) = 1..n)
         /\ retry.pc = "thrown" => retry.outcome = <<Thrown(retry.attempts[n].of)>>

\* three attempts have failed, with waits of 1000 and 2000 between them
C29_Witness ==
  /\ retry.pc = "thrown"
  /\ retry.maxRetries = 3
  /\ retry.baseDelay = 1000
  /\ retry.attempts = << [ok |-> FALSE, of |-> "e1"], [ok |-> FALSE, of |-> "e1"],
                         [ok |-> FALSE, of |-> "e2"] >>
  /\ retry.delays = <<1000, 2000>>
  /\ retry.outcome = <<Thrown("e2")>>

(***************************************************************************)
(* C30: for every integer maxRetries, zero and negative values included,   *)
(* an invocation of retryWithBackoff that has ended has called fn at least *)
(* once, and it has either returned a value that fn returned or thrown an  *)
(* error that fn threw.                                                    *)
(***************************************************************************)
C30_EndsWithOutcomeOfFn ==
  retry.pc \in {"returned", "thrown"}
  => /\ Len(retry.attempts) >= 1
     /\ \E k \in 1..Len(retry.attempts) :
          \/ retry.attempts[k].ok /\ retry.outcome = <<ReturnedValue(retry.attempts[k].of)>>
          \/ ~retry.attempts[k].ok /\ retry.outcome = <<Thrown(retry.attempts[k].of)>>

====
